---- MODULE Spec2Model ----
(***************************************************************************)
(* Model of the generator commands of azure-resource-manager-schemas:      *)
(*   - generateall.ts   the full-batch run            (Spec, SpecFair)     *)
(*   - part_000         the single-surface run        (SpecSingle)         *)
(*   - listresources.ts the listing run               (SpecList)           *)
(*                      findAllReferences             (SpecRefs)           *)
(*                      findAllResourceReferences     (SpecCandidates)     *)
(*                      getResourceInfo, readSchema   (SpecLoader)         *)
(*   - either generation command                      (SpecGeneration)     *)
(*   - the chunk selection of generateall.ts          (SpecPartition)      *)
(* Strings are sequences of tokens, so that prefix tests and concatenation *)
(* are computed and not assumed.                                           *)
(***************************************************************************)
EXTENDS Integers, Sequences, FiniteSets, TLC

\* ------------------------------------------------------------------ bounds
MaxBasePaths == 2
MaxEntries == 2
MaxSingleEntries == 3
MaxRefs == 2
MaxNodes == 4
MaxFound == 3
MaxChunkInput == 5
MaxBatchCount == 3

\* ----------------------------------------------------------------- strings
Undefined == <<"undefined">>
UndefinedNum == 0 - 1
\* an undefined value where a list of strings is expected
UndefinedList == << <<"undefined">> >>

startsWith(s, prefix) ==
    /\ Len(s) >= Len(prefix)
    /\ SubSeq(s, 1, Len(prefix)) = prefix

\* JavaScript's `a || b` on strings: undefined and '' are falsy
OrElse(a, b) == IF a = Undefined \/ a = <<>> THEN b ELSE a

RECURSIVE SeqConcat(_)
SeqConcat(ss) == IF ss = <<>> THEN <<>> ELSE Head(ss) \o SeqConcat(Tail(ss))

IsPrefix(s, t) == Len(s) <= Len(t) /\ SubSeq(t, 1, Len(s)) = s

\* ------------------------------------------------- collaborators (inputs)
\* base paths discovered in the specs repo: "a", "aa", "aaa", ...
BasePath(i) == [k \in 1..i |-> "a"]
BasePathList(n) == [i \in 1..n |-> BasePath(i)]

\* a readme.md document below a base path, as --readme-files names it
ReadmeFileOf(bp) == <<"specification/">> \o bp \o <<"/readme.md">>

Namespace(j) == [k \in 1..j |-> "n"]

\* what findOrGenerateAutogenEntries may return for a base path
AutoGenConfigs(bp, j) ==
    { [basePath |-> bp, namespace |-> Namespace(j), readmeFile |-> rf,
       disabledForAutogen |-> FALSE] : rf \in {Undefined, ReadmeFileOf(bp)} }
    \cup { [basePath |-> bp, namespace |-> Namespace(j), readmeFile |-> Undefined,
            disabledForAutogen |-> TRUE] }

RECURSIVE AutoGenListsOfLen(_, _)
AutoGenListsOfLen(bp, n) ==
    IF n = 0 THEN { <<>> }
    ELSE { Append(l, c) : l \in AutoGenListsOfLen(bp, n - 1), c \in AutoGenConfigs(bp, n) }

AutoGenLists(bp, maxLen) == UNION { AutoGenListsOfLen(bp, n) : n \in 0..maxLen }

\* validateAndReturnReadmePath, when it returns, and getPackageString (a string
\* function of the readme path, taken to return)
ReadmePath(x) == <<"readme:">> \o x
getPackageString(readme) == <<"pkg:">> \o readme

\* the configurations generateSchemas may return for an entry
SchemaConfig(cfg, k) ==
    [isArray |-> FALSE, basePath |-> cfg.basePath, namespace |-> cfg.namespace, index |-> k]
GeneratedConfigs(cfg) ==
    { [k \in 1..Len(cfg.namespace) |-> SchemaConfig(cfg, k)] }

ErrorOf(stage) == <<"Error:", stage>>

\* --------------------------------------------------------------- utilities
Ceil(n, c) == (n + c - 1) \div c

\* chunker(input, chunkCount): contiguous, order-preserving chunks
chunker(input, chunkCount) ==
    LET size == Ceil(Len(input), chunkCount)
        count == IF size = 0 THEN 0 ELSE Ceil(Len(input), size)
    IN [i \in 1..count |->
            SubSeq(input, (i - 1) * size + 1,
                   IF i * size < Len(input) THEN i * size ELSE Len(input))]

\* an index that counts from one
IndexOrUndefined_OneBased(chunks, index) ==
    IF index >= 1 /\ index <= Len(chunks) THEN chunks[index] ELSE UndefinedList
\* chunks[index] in JavaScript: undefined when out of range
IndexOrUndefined(chunks, index) ==
    IF index >= 0 /\ index < Len(chunks) THEN chunks[index + 1] ELSE UndefinedList

\* lodash flatten: one level, array elements spread, other elements kept
RECURSIVE flatten(_)
flatten(s) ==
    IF s = <<>> THEN <<>>
    ELSE (IF Head(s).isArray THEN Head(s).items ELSE <<Head(s)>>) \o flatten(Tail(s))

\* strip-ansi on a log line
stripAnsi(line) == [line EXCEPT !.ansi = FALSE]

\* =================================================================
\* generateall.ts: the full-batch run
\* =================================================================
VARIABLES
    args,                 \* the parsed command line
    pc,                   \* position of the run
    allBasePaths,         \* the base paths discovered in the specs repo
    basePaths,            \* the base paths this run processes
    bpIdx,                \* position of the outer loop
    filteredAutoGenList,  \* the surviving entries of the current base path
    cfgIdx,               \* position of the inner loop
    schemaConfigs,        \* accumulated configurations
    packages,             \* accumulated package records
    stdout,               \* first sink of the summary logger (and console.log)
    logFile,              \* what the run appends to the log file, the second sink
    events,               \* history: what happened to each base path and entry
    calls,                \* history: collaborator calls, in order
    report,               \* the package reports written
    fatal                 \* the stage whose error left the callback

batchVars == <<args, pc, allBasePaths, basePaths, bpIdx, filteredAutoGenList, cfgIdx,
               schemaConfigs, packages, stdout, logFile, events, calls, report, fatal>>

\* the single-surface run (src/unnamed/part_000)
VARIABLES
    sPc,                  \* position of the run
    sReadme,              \* the entry-point document of the base path
    autoGenEntries,       \* the entries of the base path
    sIdx,                 \* position of the loop
    sSchemaConfigs,       \* accumulated configurations
    sStdout,              \* console.log lines
    sCalls,               \* history: collaborator calls, in order
    sError                \* the error that left the callback

singleVars == <<sPc, sReadme, autoGenEntries, sIdx, sSchemaConfigs, sStdout, sCalls, sError>>

\* the listing run (listresources.ts)
VARIABLES
    lPc,                  \* position of the run
    rootSchemaRefs,       \* the candidate references
    refIdx,               \* position of the loop over the references
    resources,            \* the descriptors of the current reference
    resIdx,               \* position of the loop over the descriptors
    allResources,         \* the catalog: keys in insertion order, each with its versions
    inserted,             \* history: the descriptors inserted, in order
    lCalls,               \* history: the getResourceInfo calls, in order
    printed               \* what console.log was given

listVars == <<lPc, rootSchemaRefs, refIdx, resources, resIdx, allResources, inserted, lCalls,
              printed>>

\* one call of findAllReferences
VARIABLES
    refPc,                \* "call" before, "returned" after
    refInput,             \* the JSON value given
    refResult             \* what the call produced

refVars == <<refPc, refInput, refResult>>

\* one call of findAllResourceReferences
VARIABLES
    cPc,                  \* position of the call
    rootSchemas,          \* per root document: what findAllReferences finds in it
    rootIdx,              \* position of the loop over the root documents
    allRefs,              \* the references collected so far
    candidates            \* what the call returned

candVars == <<cPc, rootSchemas, rootIdx, allRefs, candidates>>

\* one call of getResourceInfo
VARIABLES
    ldPc,                 \* "call" before, "returned" after
    schemaRef,            \* the reference given
    schemaFile,           \* the document stored at the reference's path
    ldReads,              \* history: the readFile calls
    ldResult              \* what the call produced

loaderVars == <<ldPc, schemaRef, schemaFile, ldReads, ldResult>>

\* the chunk selection of a full-batch run, on its own
VARIABLES
    chPc,                 \* "select" before, "selected" after
    chBasePaths,          \* the base paths discovered
    chArgs,               \* the parsed command line
    chSelected            \* the base paths the run is left with

chunkVars == <<chPc, chBasePaths, chArgs, chSelected>>

vars == <<batchVars, singleVars, listVars, refVars, candVars, loaderVars, chunkVars>>

BatchIdle ==
    /\ args = <<>> /\ pc = "idle" /\ allBasePaths = <<>> /\ basePaths = <<>> /\ bpIdx = 1
    /\ filteredAutoGenList = <<>> /\ cfgIdx = 1 /\ schemaConfigs = <<>> /\ packages = <<>>
    /\ stdout = <<>> /\ logFile = <<>> /\ events = <<>> /\ calls = <<>> /\ report = <<>>
    /\ fatal = "none"
SingleIdle ==
    /\ sPc = "idle" /\ sReadme = Undefined /\ autoGenEntries = <<>> /\ sIdx = 1
    /\ sSchemaConfigs = <<>> /\ sStdout = <<>> /\ sCalls = <<>> /\ sError = Undefined
ListIdle ==
    /\ lPc = "idle" /\ rootSchemaRefs = <<>> /\ refIdx = 1 /\ resources = <<>> /\ resIdx = 1
    /\ allResources = <<>> /\ inserted = <<>> /\ lCalls = <<>> /\ printed = <<>>
RefsIdle ==
    /\ refPc = "idle" /\ refInput = <<>> /\ refResult = <<>>
CandIdle ==
    /\ cPc = "idle" /\ rootSchemas = <<>> /\ rootIdx = 1 /\ allRefs = <<>> /\ candidates = <<>>
LoaderIdle ==
    /\ ldPc = "idle" /\ schemaRef = <<>> /\ schemaFile = <<>> /\ ldReads = <<>>
    /\ ldResult = <<>>
ChunkIdle ==
    /\ chPc = "idle" /\ chBasePaths = <<>> /\ chArgs = <<>> /\ chSelected = <<>>

\* --readme-files values tried
ReadmeFilesArgs ==
    { UndefinedList,
      <<>>,
      << ReadmeFileOf(BasePath(2)), ReadmeFileOf(BasePath(1)) >>,
      << <<"other/">> \o BasePath(1) >> }

\* the command lines tried: the default one, each batch selection, each allow-list
DefaultArgs ==
    [batchCount |-> UndefinedNum, batchIndex |-> UndefinedNum,
     readmeFiles |-> UndefinedList, outputPath |-> FALSE]

BatchArgs ==
    { <<UndefinedNum, 0>>, <<2, UndefinedNum>>, <<2, 0>>, <<2, 1>>, <<2, 2>> }

ArgsSet ==
    { [DefaultArgs EXCEPT !.outputPath = o] : o \in BOOLEAN }
    \cup { [DefaultArgs EXCEPT !.batchCount = b[1], !.batchIndex = b[2]] : b \in BatchArgs }
    \cup { [DefaultArgs EXCEPT !.readmeFiles = r] :
              r \in ReadmeFilesArgs \ {UndefinedList} }

\* an outer try block around the readme resolution of the base path only
OuterGuarded_ReadmeOnly == {"readme"}
\* an outer try block that ends before clearAutoGeneratedSchemaRefs
OuterGuarded_ClearOutside == {"readme", "namespaces", "entries"}
\* the statements the outer try block covers (lines 66-123), by stage
OuterGuarded == {"readme", "namespaces", "entries", "clear"}
\* an inner try block that ends before generateSchemas
InnerGuarded_GenerateOutside == {"readme"}
\* the statements the inner try block covers (lines 90-105), by stage
InnerGuarded == {"readme", "generate"}

\* the entries findOrGenerateAutogenEntries has returned so far in the run
RECURSIVE EntriesReturned(_)
EntriesReturned(evs) ==
    IF evs = <<>> THEN 0
    ELSE (IF Head(evs).kind \in {"enter", "skip"} THEN Len(Head(evs).autoGenList) ELSE 0)
         + EntriesReturned(Tail(evs))

Call(fn, arg, ok) == [fn |-> fn, arg |-> arg, ok |-> ok]
\* a call that returned `ret`
Returned(fn, arg, ret) == [fn |-> fn, arg |-> arg, ok |-> TRUE, ret |-> ret]
CallsOf(cs, fn) == SelectSeq(cs, LAMBDA c : c.fn = fn)

\* a logger that writes to the console only
logOutFile_ConsoleOnly(file, line) == file
\* logOut: the line goes to both sinks of the logger
logOutStdout(out, line) == Append(out, line)
logOutFile(file, line) == Append(file, stripAnsi(line))

ConsoleLine(text, cfg) ==
    [kind |-> "console", basePath |-> cfg.basePath, namespace |-> Undefined,
     error |-> text, ansi |-> TRUE]
SuccessBlock(basePath) ==
    [kind |-> "success", basePath |-> basePath, namespace |-> Undefined,
     error |-> Undefined, ansi |-> FALSE]
FailedBlock(cfg, error) ==
    [kind |-> "failed", basePath |-> cfg.basePath, namespace |-> cfg.namespace,
     error |-> error, ansi |-> FALSE]
SkippedBlock(basePath, error) ==
    [kind |-> "skipped", basePath |-> basePath, namespace |-> Undefined,
     error |-> error, ansi |-> FALSE]

\* a filter that keeps every entry
FilterDisabled_KeepAll(list) == list
\* line 70: drop the disabled entries
FilterDisabled(list) == SelectSeq(list, LAMBDA x : x.disabledForAutogen # TRUE)

\* a lookup that returns the last match
FindReadmeFile_Last(readmeFiles, c) ==
    LET hits == { i \in 1..Len(readmeFiles) :
                    startsWith(readmeFiles[i], <<"specification/">> \o c.basePath) }
    IN IF hits = {} THEN Undefined
       ELSE readmeFiles[CHOOSE i \in hits : \A k \in hits : i >= k]
\* line 75: readmeFiles.find(f => f.startsWith('specification/' + c.basePath))
FindReadmeFile(readmeFiles, c) ==
    LET hits == { i \in 1..Len(readmeFiles) :
                    startsWith(readmeFiles[i], <<"specification/">> \o c.basePath) }
    IN IF hits = {} THEN Undefined
       ELSE readmeFiles[CHOOSE i \in hits : \A k \in hits : i <= k]

\* lines 72-82: keep the entries an allow-listed document matches, overriding readmeFile
RECURSIVE FilterReadmeFiles(_, _)
FilterReadmeFiles(list, readmeFiles) ==
    IF list = <<>> THEN <<>>
    ELSE LET c == Head(list)
             r == FindReadmeFile(readmeFiles, c)
             rest == FilterReadmeFiles(Tail(list), readmeFiles)
         IN IF r # Undefined /\ r # <<>>
            THEN <<[c EXCEPT !.readmeFile = r]>> \o rest
            ELSE rest

\* lines 69-82
FilterAutoGenList(list, readmeFiles) ==
    IF readmeFiles # UndefinedList
    THEN FilterReadmeFiles(FilterDisabled(list), readmeFiles)
    ELSE FilterDisabled(list)

\* lines 56-58
SelectBasePaths(list, a) ==
    IF a.batchCount # UndefinedNum /\ a.batchIndex # UndefinedNum
    THEN IndexOrUndefined(chunker(list, a.batchCount), a.batchIndex)
    ELSE list

\* pc once base path i of n is finished (the for loop of line 65 goes on)
PcAfterBasePath(i, n) == IF i >= n THEN "save" ELSE "loop"
\* pc once entry j of m is finished (the for loop of line 86 goes on)
PcAfterEntry(j, m, i, n) == IF j < m THEN "entries" ELSE PcAfterBasePath(i, n)

\* lines 87-89
NewPackage == [path |-> <<"schemas">>, packageName |-> Undefined, result |-> Undefined]

\* line 91
EntryReadme(cfg) == ReadmePath(OrElse(cfg.readmeFile, cfg.basePath))

\* lines 91-99: the package record when the try block is left at `stage`
TryPackage(cfg, stage) ==
    IF stage = "readme" THEN NewPackage
    ELSE IF stage = "generate"
    THEN [NewPackage EXCEPT !.packageName = getPackageString(EntryReadme(cfg))]
    ELSE [NewPackage EXCEPT !.packageName = getPackageString(EntryReadme(cfg)),
                            !.result = "succeeded"]

\* a catch that keeps a package name the try block had already set
InnerCatchPackage_KeepName(pkg, cfg) ==
    [pkg EXCEPT !.packageName = OrElse(pkg.packageName, cfg.basePath), !.result = "failed"]
\* lines 105-107
InnerCatchPackage(pkg, cfg) ==
    [pkg EXCEPT !.packageName = cfg.basePath, !.result = "failed"]

\* an accumulator that is overwritten, not extended
PushConfigs_Overwrite(acc, newConfigs) == newConfigs
\* line 98
PushConfigs(acc, newConfigs) == acc \o newConfigs
\* unshift instead of push
PushPackage_Unshift(acc, pkg) == <<pkg>> \o acc
\* line 121
PushPackage(acc, pkg) == Append(acc, pkg)

\* the collaborator calls of one entry attempt left at `stage`
EntryCalls(cfg, stage, newConfigs) ==
    <<Call("validateAndReturnReadmePath", OrElse(cfg.readmeFile, cfg.basePath), stage # "readme")>>
    \o (IF stage = "readme" THEN <<>>
        ELSE <<Call("getPackageString", EntryReadme(cfg), TRUE),
               Call("generateSchemas", cfg, stage # "generate")>>)

\* the collaborator calls of the pre-generation steps left at `stage`
BasePathCalls(bp, stage, filtered) ==
    <<Call("validateAndReturnReadmePath", bp, stage # "readme")>>
    \o (IF stage = "readme" THEN <<>>
        ELSE <<Call("getApiVersionsByNamespace", ReadmePath(bp), stage # "namespaces")>>)
    \o (IF stage \in {"readme", "namespaces"} THEN <<>>
        ELSE <<Call("findOrGenerateAutogenEntries", bp, stage # "entries")>>)
    \o (IF stage \in {"readme", "namespaces", "entries"} THEN <<>>
        ELSE <<Call("clearAutoGeneratedSchemaRefs", filtered, stage # "clear")>>)

Init ==
    /\ args \in ArgsSet
    /\ pc = "start"
    /\ allBasePaths = <<>>
    /\ basePaths = <<>>
    /\ bpIdx = 1
    /\ filteredAutoGenList = <<>>
    /\ cfgIdx = 1
    /\ schemaConfigs = <<>>
    /\ packages = <<>>
    /\ stdout = <<>>
    /\ logFile = <<>>
    /\ events = <<>>
    /\ calls = <<>>
    /\ report = <<>>
    /\ fatal = "none"
    /\ SingleIdle /\ ListIdle /\ RefsIdle
    /\ CandIdle /\ LoaderIdle /\ ChunkIdle

Abort(stage) ==
    /\ pc' = "aborted"
    /\ fatal' = stage

\* lines 31-65: arguments, discovery of the base paths, chunk selection, logger
Start ==
    /\ pc = "start"
    /\ \/ /\ Abort("discover")
          /\ UNCHANGED <<allBasePaths, basePaths>>
       \/ \E n \in 0..MaxBasePaths :
            LET list == BasePathList(n)
                chosen == SelectBasePaths(list, args)
            IN /\ allBasePaths' = list
               /\ basePaths' = chosen
               /\ IF chosen = UndefinedList
                  THEN Abort("chunk")
                  ELSE /\ pc' = PcAfterBasePath(0, Len(chosen))
                       /\ fatal' = fatal
    /\ UNCHANGED <<args, bpIdx, filteredAutoGenList, cfgIdx, schemaConfigs, packages,
                   stdout, logFile, events, calls, report>>
    /\ UNCHANGED <<singleVars, listVars, refVars, candVars, loaderVars, chunkVars>>

\* an outer catch that logs and leaves the loop
OuterCatch_Break(bp, stage) ==
    /\ stdout' = logOutStdout(stdout, SkippedBlock(bp, ErrorOf(stage)))
    /\ logFile' = logOutFile(logFile, SkippedBlock(bp, ErrorOf(stage)))
    /\ bpIdx' = bpIdx + 1
    /\ pc' = "save"
    /\ fatal' = fatal

\* lines 123-134: the outer catch logs the base path as skipped
OuterCatch(bp, stage) ==
    /\ stdout' = logOutStdout(stdout, SkippedBlock(bp, ErrorOf(stage)))
    /\ logFile' = logOutFile(logFile, SkippedBlock(bp, ErrorOf(stage)))
    /\ bpIdx' = bpIdx + 1
    /\ pc' = PcAfterBasePath(bpIdx, Len(basePaths))
    /\ fatal' = fatal

\* a loop that is entered although clearAutoGeneratedSchemaRefs threw
EntersLoop_DespiteClear(stage) == stage \in {"none", "clear"}
\* lines 84-86: the loop over the entries is reached when every statement
\* before it, clearAutoGeneratedSchemaRefs last, has returned
EntersLoop(stage) == stage = "none"

\* lines 65-84: the pre-generation steps of one base path
BasePathStep ==
    /\ pc = "loop"
    /\ LET bp == basePaths[bpIdx] IN
       \E stage \in {"readme", "namespaces", "entries", "clear", "none"} :
       \E list \in (IF stage \in {"clear", "none"} THEN AutoGenLists(bp, MaxEntries - EntriesReturned(events)) ELSE {<<>>}) :
         LET filtered == FilterAutoGenList(list, args.readmeFiles) IN
         /\ calls' = calls \o BasePathCalls(bp, stage, filtered)
         /\ IF EntersLoop(stage)
            THEN /\ filteredAutoGenList' = filtered
                 /\ cfgIdx' = 1
                 /\ events' = Append(events, [kind |-> "enter", basePath |-> bp,
                                              autoGenList |-> list, filtered |-> filtered])
                 /\ pc' = PcAfterEntry(0, Len(filtered), bpIdx, Len(basePaths))
                 /\ bpIdx' = IF filtered = <<>> THEN bpIdx + 1 ELSE bpIdx
                 /\ UNCHANGED <<stdout, logFile, fatal>>
            ELSE /\ events' = Append(events, [kind |-> "skip", basePath |-> bp, stage |-> stage,
                                              autoGenList |-> list])
                 /\ UNCHANGED <<filteredAutoGenList, cfgIdx>>
                 /\ IF stage \in OuterGuarded
                    THEN OuterCatch(bp, stage)
                    ELSE /\ Abort(stage)
                         /\ UNCHANGED <<stdout, logFile, bpIdx>>
    /\ UNCHANGED <<args, allBasePaths, basePaths, schemaConfigs, packages, report>>
    /\ UNCHANGED <<singleVars, listVars, refVars, candVars, loaderVars, chunkVars>>

\* lines 86-122: one entry of the current base path
EntryStep ==
    /\ pc = "entries"
    /\ LET bp == basePaths[bpIdx]
           cfg == filteredAutoGenList[cfgIdx]
       IN
       \E stage \in {"readme", "generate", "none"} :
       \E newConfigs \in (IF stage = "none" THEN GeneratedConfigs(cfg) ELSE {<<>>}) :
         LET pkg == TryPackage(cfg, stage) IN
         /\ calls' = calls \o EntryCalls(cfg, stage, newConfigs)
         /\ events' = Append(events, [kind |-> "attempt", basePath |-> bp, cfg |-> cfg,
                                      stage |-> stage, configs |-> newConfigs])
         /\ IF stage = "none"
            THEN /\ schemaConfigs' = PushConfigs(schemaConfigs, newConfigs)
                 /\ stdout' = logOutStdout(Append(stdout, ConsoleLine(<<"Time taken">>, cfg)),
                                           SuccessBlock(bp))
                 /\ logFile' = logOutFile(logFile, SuccessBlock(bp))
                 /\ packages' = PushPackage(packages, pkg)
                 /\ cfgIdx' = cfgIdx + 1
                 /\ pc' = PcAfterEntry(cfgIdx, Len(filteredAutoGenList), bpIdx, Len(basePaths))
                 /\ bpIdx' = IF cfgIdx >= Len(filteredAutoGenList) THEN bpIdx + 1 ELSE bpIdx
                 /\ fatal' = fatal
            ELSE IF stage \in InnerGuarded
            THEN /\ schemaConfigs' = schemaConfigs
                 /\ stdout' = logOutStdout(
                        stdout \o <<ConsoleLine(<<"Caught exception">>, cfg),
                                    ConsoleLine(ErrorOf(stage), cfg)>>,
                        FailedBlock(cfg, ErrorOf(stage)))
                 /\ logFile' = logOutFile(logFile, FailedBlock(cfg, ErrorOf(stage)))
                 /\ packages' = PushPackage(packages, InnerCatchPackage(pkg, cfg))
                 /\ cfgIdx' = cfgIdx + 1
                 /\ pc' = PcAfterEntry(cfgIdx, Len(filteredAutoGenList), bpIdx, Len(basePaths))
                 /\ bpIdx' = IF cfgIdx >= Len(filteredAutoGenList) THEN bpIdx + 1 ELSE bpIdx
                 /\ fatal' = fatal
            ELSE \* not caught by the inner try: the outer catch takes it
                 /\ OuterCatch(bp, stage)
                 /\ UNCHANGED <<schemaConfigs, packages, cfgIdx>>
    /\ UNCHANGED <<args, allBasePaths, basePaths, filteredAutoGenList, report>>
    /\ UNCHANGED <<singleVars, listVars, refVars, candVars, loaderVars, chunkVars>>

\* line 138
Save ==
    /\ pc = "save"
    /\ \E ok \in BOOLEAN :
        /\ calls' = Append(calls, Call("saveAutoGeneratedSchemaRefs", flatten(schemaConfigs), ok))
        /\ IF ok
           THEN /\ pc' = IF args.outputPath THEN "report" ELSE "done"
                /\ fatal' = fatal
           ELSE Abort("save")
    /\ UNCHANGED <<args, allBasePaths, basePaths, bpIdx, filteredAutoGenList, cfgIdx,
                   schemaConfigs, packages, stdout, logFile, events, report>>
    /\ UNCHANGED <<singleVars, listVars, refVars, candVars, loaderVars, chunkVars>>

\* lines 140-143
Report ==
    /\ pc = "report"
    /\ \E ok \in BOOLEAN :
        /\ calls' = Append(calls, Call("writeJsonFile", [packages |-> packages], ok))
        /\ IF ok
           THEN /\ pc' = "done"
                /\ report' = Append(report, [packages |-> packages])
                /\ fatal' = fatal
           ELSE /\ Abort("report")
                /\ report' = report
    /\ UNCHANGED <<args, allBasePaths, basePaths, bpIdx, filteredAutoGenList, cfgIdx,
                   schemaConfigs, packages, stdout, logFile, events>>
    /\ UNCHANGED <<singleVars, listVars, refVars, candVars, loaderVars, chunkVars>>

Next == Start \/ BasePathStep \/ EntryStep \/ Save \/ Report

Spec == Init /\ [][Next]_vars

\* the scheduler runs the callback to its end: no step waits on anything but
\* the collaborator it calls
SpecFair == Spec /\ WF_vars(Next)

\* -------------------------------------------------- claims, full-batch run
Attempts == SelectSeq(events, LAMBDA e : e.kind = "attempt")
Visited == SelectSeq(events, LAMBDA e : e.kind \in {"enter", "skip"})
Entered == SelectSeq(events, LAMBDA e : e.kind = "enter")
Skipped == SelectSeq(events, LAMBDA e : e.kind = "skip")
Logged == SelectSeq(events, LAMBDA e : e.kind \in {"attempt", "skip"})
Raised(a) == a.stage # "none"
\* the surviving entries of the base paths entered so far, in processing order
Surviving == SeqConcat([k \in 1..Len(Entered) |-> Entered[k].filtered])
\* the entries of the current base path still to be attempted
Pending == IF pc = "entries" THEN Len(filteredAutoGenList) - cfgIdx + 1 ELSE 0
LoopOver == pc \in {"save", "report", "done"} \/ (pc = "aborted" /\ fatal \in {"save", "report"})
Saved == CallsOf(calls, "saveAutoGeneratedSchemaRefs")
SummaryBlocks(out) == SelectSeq(out, LAMBDA l : l.kind # "console")

\* C1: inner isolation. Whatever entries raise, every surviving entry of every
\* entered base path is attempted, in entry order; each attempt appends exactly one
\* package record, tagged failed exactly when the attempt raised; and once the
\* loop is over every base path of the list has been visited.
C1_InnerIsolation ==
    /\ Len(Attempts) = Len(Surviving) - Pending
    /\ \A k \in 1..Len(Attempts) : Attempts[k].cfg = Surviving[k]
    /\ Len(packages) = Len(Attempts)
    /\ \A k \in 1..Len(packages) :
          packages[k].result = IF Raised(Attempts[k]) THEN "failed" ELSE "succeeded"
    /\ LoopOver => Len(Visited) = Len(basePaths)

\* C1 witness: the first of two surviving entries raised, the second was generated,
\* and the next base path was visited
C1_Witness ==
    /\ LoopOver
    /\ Len(basePaths) = 2
    /\ Len(Attempts) = 2
    /\ Attempts[1].basePath = basePaths[1] /\ Attempts[2].basePath = basePaths[1]
    /\ Raised(Attempts[1]) /\ ~Raised(Attempts[2])
    /\ Len(Visited) = 2

\* C2: outer isolation. A base path whose readme cannot be resolved gets exactly
\* one skipped block in each sink, no enter, no attempt, no generateSchemas call
\* and no package record; the base paths after it are visited in list order.
C2_OuterIsolation ==
    /\ \A k \in 1..Len(Visited) : Visited[k].basePath = basePaths[k]
    /\ LoopOver => Len(Visited) = Len(basePaths)
    /\ Len(packages) = Len(Attempts)
    /\ \A k \in 1..Len(Skipped) :
          LET bp == Skipped[k].basePath IN
          Skipped[k].stage = "readme" =>
            /\ Cardinality({ i \in 1..Len(logFile) :
                    logFile[i].kind = "skipped" /\ logFile[i].basePath = bp }) = 1
            /\ Cardinality({ i \in 1..Len(stdout) :
                    stdout[i].kind = "skipped" /\ stdout[i].basePath = bp }) = 1
            /\ \A i \in 1..Len(Attempts) : Attempts[i].basePath # bp
            /\ \A i \in 1..Len(Entered) : Entered[i].basePath # bp
            /\ \A i \in 1..Len(calls) :
                  calls[i].fn = "generateSchemas" => calls[i].arg.basePath # bp

\* C2 witness: the first base path had no readme, the second was generated
C2_Witness ==
    /\ LoopOver
    /\ Len(basePaths) = 2
    /\ Len(Skipped) = 1 /\ Skipped[1].stage = "readme" /\ Skipped[1].basePath = basePaths[1]
    /\ Len(packages) = 2
    /\ packages[1].result = "succeeded"

\* what the summary log holds for an event
BlockDescribes(b, e) ==
    IF e.kind = "skip"
    THEN b.kind = "skipped" /\ b.basePath = e.basePath
    ELSE IF Raised(e)
    THEN b.kind = "failed" /\ b.basePath = e.cfg.basePath /\ b.namespace = e.cfg.namespace
    ELSE b.kind = "success" /\ b.basePath = e.basePath
\* what the package list holds for an attempt
PackageOf(a) ==
    [path |-> <<"schemas">>,
     packageName |-> IF Raised(a) THEN a.cfg.basePath
                     ELSE getPackageString(ReadmePath(OrElse(a.cfg.readmeFile, a.cfg.basePath))),
     result |-> IF Raised(a) THEN "failed" ELSE "succeeded"]

C3_InOrder ==
    /\ \A k \in 1..Len(Visited) : Visited[k].basePath = basePaths[k]
    /\ \A k \in 1..Len(Attempts) : Attempts[k].cfg = Surviving[k]
    /\ Len(packages) = Len(Attempts)
    /\ \A k \in 1..Len(packages) : packages[k] = PackageOf(Attempts[k])
    /\ Len(logFile) = Len(Logged)
    /\ \A k \in 1..Len(logFile) : BlockDescribes(logFile[k], Logged[k])
    /\ SummaryBlocks(stdout) = logFile
C3_AppendOnly ==
    /\ IsPrefix(packages, packages')
    /\ IsPrefix(logFile, logFile')
    /\ IsPrefix(stdout, stdout')

\* C3: ordering. The package list follows the attempts and the summary log follows
\* the skipped base paths and the attempts, both in processing order (base paths
\* in list order, entries in entry order), and a step only ever appends to them.
C3_Ordering == [](C3_InOrder) /\ [][C3_AppendOnly]_vars

\* C3 witness: a skipped base path, then a base path with a failed and a succeeded entry
C3_Witness ==
    /\ Len(logFile) = 3
    /\ logFile[1].kind = "skipped" /\ logFile[2].kind = "failed" /\ logFile[3].kind = "success"
    /\ Len(packages) = 2

\* C4 as claimed, for the collaborators called after the loop: a failure of
\* saveAutoGeneratedSchemaRefs or of the package report does not end the run with
\* an unhandled error
C4_NeverAborts == ~(pc = "aborted" /\ fatal \in {"save", "report"})

Terminated == pc \in {"done", "aborted"}

\* C4 amended: every run ends, and it ends normally unless an error was raised
\* outside the two try blocks (discovery of the base paths, chunk selection,
\* saveAutoGeneratedSchemaRefs, the package report); failures of readme resolution,
\* namespace retrieval, entry enumeration, reference clearing and generation
\* never end it.
C4_EndsNormallyUnlessOutside ==
    /\ [](pc = "aborted" => fatal \in {"discover", "chunk", "save", "report"})
    /\ [](pc = "done" => fatal = "none")
    /\ <>Terminated

\* C4 witness: a run that reached its normal end after a failed clearing and a
\* failed generation
C4_Witness ==
    /\ pc = "done"
    /\ \E k \in 1..Len(Skipped) : Skipped[k].stage = "clear"
    /\ \E k \in 1..Len(Attempts) : Attempts[k].stage = "generate"

\* C5: package naming. Every record carries path schemas and one of the two tags;
\* a succeeded record is keyed by the package string of the entry's resolved
\* readme (readmeFile, else basePath), a failed one by the entry's base path.
C5_PackageNaming ==
    /\ Len(packages) = Len(Attempts)
    /\ \A k \in 1..Len(packages) :
        LET cfg == Attempts[k].cfg IN
        /\ packages[k].result \in {"succeeded", "failed"}
        /\ packages[k].result = "succeeded" =>
              packages[k].packageName =
                  getPackageString(ReadmePath(OrElse(cfg.readmeFile, cfg.basePath)))
        /\ packages[k].result = "failed" => packages[k].packageName = cfg.basePath

\* C5 witness: a record failed after its package string was computed, and a record
\* succeeded with an overridden readme
C5_Witness ==
    /\ \E k \in 1..Len(packages) :
          packages[k].result = "failed" /\ Attempts[k].stage = "generate"
    /\ \E k \in 1..Len(packages) :
          packages[k].result = "succeeded" /\ Attempts[k].cfg.readmeFile # Undefined

\* C6: accumulated references. saveAutoGeneratedSchemaRefs is called at most once,
\* after the last base path, and is given the configurations returned by the
\* succeeded attempts, concatenated in processing order, and nothing else.
C6_SavedReferences ==
    /\ Len(Saved) <= 1
    /\ pc \in {"report", "done"} => Len(Saved) = 1
    /\ Saved # <<>> =>
        /\ LoopOver
        /\ Len(Visited) = Len(basePaths)
        /\ Len(Attempts) = Len(Surviving)
        /\ \A k \in 1..Len(calls) :
              calls[k].fn \notin {"saveAutoGeneratedSchemaRefs", "writeJsonFile"}
                  => \A j \in 1..Len(calls) :
                        calls[j].fn = "saveAutoGeneratedSchemaRefs" => k < j
        /\ Saved[1].arg =
              SeqConcat([k \in 1..Len(Attempts) |->
                            IF Raised(Attempts[k]) THEN <<>> ELSE Attempts[k].configs])

\* C6 witness: saved after a skipped base path and two succeeded entries
C6_Witness ==
    /\ Saved # <<>>
    /\ Len(Skipped) = 1
    /\ Len(Attempts) = 2
    /\ ~Raised(Attempts[1]) /\ ~Raised(Attempts[2])
    /\ Len(Saved[1].arg) = 3

\* =================================================================
\* src/unnamed/part_000: the single-surface run
\* =================================================================
\* --base-path (required)
SingleBasePath == BasePath(1)

\* line 32
ExplanatoryError(basePath) == <<"Error:", "Unable to find a readme under">> \o basePath

\* line 39
IsDisabled(cfg) == cfg.disabledForAutogen = TRUE

\* pc once entry j of m is finished (the for loop of line 38 goes on)
SinglePcAfterEntry(j, m) == IF j < m THEN "entries" ELSE "save"
\* a loop that isolates the failing entry and goes on
SinglePcAfterFailure_Isolated(j, m) == SinglePcAfterEntry(j, m)
\* pc once generateSchemas has thrown for entry j of m (line 48: nothing catches it)
SinglePcAfterFailure(j, m) == "aborted"

SingleInit ==
    /\ sPc = "start"
    /\ sReadme = Undefined
    /\ autoGenEntries = <<>>
    /\ sIdx = 1
    /\ sSchemaConfigs = <<>>
    /\ sStdout = <<>>
    /\ sCalls = <<>>
    /\ sError = Undefined
    /\ BatchIdle /\ ListIdle /\ RefsIdle
    /\ CandIdle /\ LoaderIdle /\ ChunkIdle

\* lines 17-36: arguments, checkout, entry-point document, entries
SingleStart ==
    /\ sPc = "start"
    /\ \/ \* lines 21-26: cloneAndGenerateBasePaths or resolveAbsolutePath throws
          /\ sPc' = "aborted"
          /\ sError' = ErrorOf("discover")
          /\ UNCHANGED <<sReadme, autoGenEntries, sCalls>>
       \/ \* lines 29-33: no readme, the explanatory error is thrown
          /\ sPc' = "aborted"
          /\ sError' = ExplanatoryError(SingleBasePath)
          /\ sCalls' = Append(sCalls, Call("validateAndReturnReadmePath", SingleBasePath, FALSE))
          /\ UNCHANGED <<sReadme, autoGenEntries>>
       \/ \* line 36: findOrGenerateAutogenEntries throws
          /\ sPc' = "aborted"
          /\ sError' = ErrorOf("entries")
          /\ sReadme' = ReadmePath(SingleBasePath)
          /\ sCalls' = sCalls \o
                <<Call("validateAndReturnReadmePath", SingleBasePath, TRUE),
                  Call("findOrGenerateAutogenEntries", SingleBasePath, FALSE)>>
          /\ UNCHANGED autoGenEntries
       \/ \E list \in AutoGenLists(SingleBasePath, MaxSingleEntries) :
          /\ sPc' = SinglePcAfterEntry(0, Len(list))
          /\ sReadme' = ReadmePath(SingleBasePath)
          /\ autoGenEntries' = list
          /\ sCalls' = sCalls \o
                <<Call("validateAndReturnReadmePath", SingleBasePath, TRUE),
                  Call("findOrGenerateAutogenEntries", SingleBasePath, TRUE)>>
          /\ sError' = sError
    /\ UNCHANGED <<sIdx, sSchemaConfigs, sStdout>>
    /\ UNCHANGED <<batchVars, listVars, refVars, candVars, loaderVars, chunkVars>>

\* lines 38-50: one entry
SingleEntryStep ==
    /\ sPc = "entries"
    /\ LET cfg == autoGenEntries[sIdx]
           m == Len(autoGenEntries)
       IN
       IF IsDisabled(cfg)
       THEN /\ sStdout' = sStdout \o <<ConsoleLine(<<"has been disabled for generation">>, cfg)>>
            /\ sIdx' = sIdx + 1
            /\ sPc' = SinglePcAfterEntry(sIdx, m)
            /\ UNCHANGED <<sSchemaConfigs, sCalls, sError>>
       ELSE \E ok \in BOOLEAN :
            /\ sStdout' = sStdout \o <<ConsoleLine(<<"Using autogenlist config">>, cfg)>>
            /\ IF ok
               THEN /\ \E localSchemaConfigs \in GeneratedConfigs(cfg) :
                        /\ sSchemaConfigs' = PushConfigs(sSchemaConfigs, localSchemaConfigs)
                        /\ sCalls' = Append(sCalls, Returned("generateSchemas", cfg,
                                                             localSchemaConfigs))
                    /\ sIdx' = sIdx + 1
                    /\ sPc' = SinglePcAfterEntry(sIdx, m)
                    /\ sError' = sError
               ELSE /\ sCalls' = Append(sCalls, Call("generateSchemas", cfg, FALSE))
                    /\ sPc' = SinglePcAfterFailure(sIdx, m)
                    /\ sIdx' = IF sPc' = "aborted" THEN sIdx ELSE sIdx + 1
                    /\ sError' = ErrorOf("generate")
                    /\ UNCHANGED sSchemaConfigs
    /\ UNCHANGED <<sReadme, autoGenEntries>>
    /\ UNCHANGED <<batchVars, listVars, refVars, candVars, loaderVars, chunkVars>>

\* line 52
SingleSave ==
    /\ sPc = "save"
    /\ \E ok \in BOOLEAN :
        /\ sCalls' = Append(sCalls, Call("saveAutoGeneratedSchemaRefs", sSchemaConfigs, ok))
        /\ sPc' = IF ok THEN "done" ELSE "aborted"
        /\ sError' = IF ok THEN sError ELSE ErrorOf("save")
    /\ UNCHANGED <<sReadme, autoGenEntries, sIdx, sSchemaConfigs, sStdout>>
    /\ UNCHANGED <<batchVars, listVars, refVars, candVars, loaderVars, chunkVars>>

SingleNext == SingleStart \/ SingleEntryStep \/ SingleSave

SpecSingle == SingleInit /\ [][SingleNext]_vars

\* ------------------------------------------------ claims, single-surface run
SingleGenerated == CallsOf(sCalls, "generateSchemas")
SingleSaved == CallsOf(sCalls, "saveAutoGeneratedSchemaRefs")
SingleEnabled == SelectSeq(autoGenEntries, LAMBDA c : ~IsDisabled(c))

\* C10: single-surface generation fails fast. Entries are generated in entry order;
\* when generateSchemas throws for an entry, no later entry is generated, nothing is
\* persisted and the run ends with that error; when the base path has no readme the
\* run ends with the explanatory error before any entry is enumerated or generated;
\* when nothing fails, saveAutoGeneratedSchemaRefs is called exactly once, with the
\* configurations returned for all the non-disabled entries, in order.
C10_SingleFailsFast ==
    /\ Len(SingleGenerated) <= Len(SingleEnabled)
    /\ \A k \in 1..Len(SingleGenerated) :
        /\ SingleGenerated[k].arg = SingleEnabled[k]
        /\ ~SingleGenerated[k].ok =>
              /\ k = Len(SingleGenerated)
              /\ SingleSaved = <<>>
              /\ sPc = "aborted"
              /\ sError = ErrorOf("generate")
    /\ \A k \in 1..Len(sCalls) :
        (sCalls[k].fn = "validateAndReturnReadmePath" /\ ~sCalls[k].ok) =>
              /\ sPc = "aborted"
              /\ sError = ExplanatoryError(SingleBasePath)
              /\ Len(sCalls) = 1
    /\ Len(SingleSaved) <= 1
    /\ sPc = "done" => Len(SingleSaved) = 1
    /\ SingleSaved # <<>> =>
          /\ Len(SingleGenerated) = Len(SingleEnabled)
          /\ SingleSaved[1].arg =
                SeqConcat([k \in 1..Len(SingleGenerated) |-> SingleGenerated[k].ret])

\* C10 witness: the second of three enabled entries has failed after the first succeeded
C10_Witness ==
    /\ sPc = "aborted"
    /\ sError = ErrorOf("generate")
    /\ Len(SingleEnabled) = 3
    /\ Len(SingleGenerated) = 2
    /\ SingleGenerated[1].ok

\* =================================================================
\* listresources.ts: the listing run
\* =================================================================
\* String.prototype.toLowerCase, token by token
LowerChar(c) ==
    CASE c = "F" -> "f"
      [] c = "O" -> "o"
      [] c = "B" -> "b"
      [] c = "HTTPS://SCHEMA.MANAGEMENT.AZURE.COM/SCHEMAS"
            -> "https://schema.management.azure.com/schemas"
      [] c = "2019-04-01/deploymentTemplate.json" -> "2019-04-01/deploymenttemplate.json"
      [] c = "common/autogeneratedResources.json" -> "common/autogeneratedresources.json"
      [] c = "common/manuallyAddedResources.json" -> "common/manuallyaddedresources.json"
      [] c = "COMMON/DEFINITIONS.JSON" -> "common/definitions.json"
      [] OTHER -> c
toLowerCase(str) == [k \in 1..Len(str) |-> LowerChar(str[k])]

\* lowerCaseCompare(a, b): 0 when equal without regard to case (the sign of the
\* other results is not modelled)
lowerCaseCompare(a, b) == IF toLowerCase(a) = toLowerCase(b) THEN 0 ELSE 1

\* resource types and enumerations found at reference targets
TypeFoo == <<"F", "o", "o">>
Typefoo == <<"f", "o", "o">>
TypeFOO == <<"F", "O", "O">>
TypeBar == <<"B", "a", "r">>
TypeEnums == { <<>>, <<TypeFoo>>, <<Typefoo>>, <<TypeFOO, TypeFoo>>, <<TypeBar, Typefoo>> }
VersionEnums == { <<>>, <<"v1">>, <<"v2">>, <<"v1", "v2">>, <<"v1", "v1">> }

\* the candidate references findAllResourceReferences returns
RefOf(i) ==
    <<"https://schema.management.azure.com/schemas", "/", "resources.json", "#", "/",
      "resourceDefinitions", "/">> \o [k \in 1..i |-> "r"]
RefList(n) == [i \in 1..n |-> RefOf(i)]

\* descriptors paired position by position
RECURSIVE getResourceInfoResult_Zip(_, _)
getResourceInfoResult_Zip(resourceTypes, apiVersions) ==
    IF resourceTypes = <<>> \/ apiVersions = <<>> THEN <<>>
    ELSE <<[apiVersion |-> Head(apiVersions), type |-> Head(resourceTypes)]>>
         \o getResourceInfoResult_Zip(Tail(resourceTypes), Tail(apiVersions))
\* lines 65-68: resourceTypes.map(type => apiVersions.map(...)).reduce(concat, [])
RECURSIVE getResourceInfoResult(_, _)
getResourceInfoResult(resourceTypes, apiVersions) ==
    IF resourceTypes = <<>> THEN <<>>
    ELSE [k \in 1..Len(apiVersions) |->
            [apiVersion |-> apiVersions[k], type |-> Head(resourceTypes)]]
         \o getResourceInfoResult(Tail(resourceTypes), apiVersions)

\* Object.keys(allResources), in insertion order
ObjectKeys(catalog) == [k \in 1..Len(catalog) |-> catalog[k].key]

\* a lookup that compares the keys as they are
FindResourceKey_Exact(keys, type) ==
    LET hits == { i \in 1..Len(keys) : keys[i] = type }
    IN IF hits = {} THEN Undefined ELSE keys[CHOOSE i \in hits : \A k \in hits : i <= k]
\* line 97: Object.keys(allResources).find(key => lowerCaseCompare(key, type) === 0)
FindResourceKey(keys, type) ==
    LET hits == { i \in 1..Len(keys) : lowerCaseCompare(keys[i], type) = 0 }
    IN IF hits = {} THEN Undefined ELSE keys[CHOOSE i \in hits : \A k \in hits : i <= k]

\* lines 97-103
InsertResource(catalog, resource) ==
    LET found == FindResourceKey(ObjectKeys(catalog), resource.type)
        resourceKey == IF found = Undefined THEN resource.type ELSE found
        withKey == IF found = Undefined
                   THEN Append(catalog, [key |-> resourceKey, versions |-> <<>>])
                   ELSE catalog
    IN [k \in 1..Len(withKey) |->
            IF withKey[k].key = resourceKey
            THEN [withKey[k] EXCEPT !.versions = Append(@, resource.apiVersion)]
            ELSE withKey[k]]

\* pc once reference i of n is finished (the for loop of line 92 goes on)
ListPcAfterRef(i, n) == IF i >= n THEN "print" ELSE "resolve"
\* a callback that catches the error and prints the catalog built so far
ListPcAfterFailure_Print == "print"
\* pc once findAllResourceReferences or getResourceInfo has thrown (lines 89, 93:
\* nothing catches it, the callback is left)
ListPcAfterFailure == "aborted"

ListInit ==
    /\ lPc = "start"
    /\ rootSchemaRefs = <<>>
    /\ refIdx = 1
    /\ resources = <<>>
    /\ resIdx = 1
    /\ allResources = <<>>
    /\ inserted = <<>>
    /\ lCalls = <<>>
    /\ printed = <<>>
    /\ BatchIdle /\ SingleIdle /\ RefsIdle
    /\ CandIdle /\ LoaderIdle /\ ChunkIdle

\* line 89
ListStart ==
    /\ lPc = "start"
    /\ \/ /\ lPc' = ListPcAfterFailure
          /\ UNCHANGED rootSchemaRefs
       \/ \E n \in 0..MaxRefs :
          /\ rootSchemaRefs' = RefList(n)
          /\ lPc' = ListPcAfterRef(0, n)
    /\ UNCHANGED <<refIdx, resources, resIdx, allResources, inserted, lCalls, printed>>
    /\ UNCHANGED <<batchVars, singleVars, refVars, candVars, loaderVars, chunkVars>>

\* line 93: getResourceInfo(ref) throws, or returns the descriptors of the target
GetResourceInfo ==
    /\ lPc = "resolve"
    /\ \/ /\ lPc' = ListPcAfterFailure
          /\ lCalls' = Append(lCalls, Call("getResourceInfo", rootSchemaRefs[refIdx], FALSE))
          /\ UNCHANGED <<refIdx, resources, resIdx>>
       \/ \E resourceTypes \in TypeEnums, apiVersions \in VersionEnums :
            LET found == getResourceInfoResult(resourceTypes, apiVersions) IN
            /\ lCalls' = Append(lCalls, Returned("getResourceInfo", rootSchemaRefs[refIdx], found))
            /\ resources' = found
            /\ resIdx' = 1
            /\ lPc' = IF found = <<>> THEN ListPcAfterRef(refIdx, Len(rootSchemaRefs))
                      ELSE "insert"
            /\ refIdx' = IF found = <<>> THEN refIdx + 1 ELSE refIdx
    /\ UNCHANGED <<rootSchemaRefs, allResources, inserted, printed>>
    /\ UNCHANGED <<batchVars, singleVars, refVars, candVars, loaderVars, chunkVars>>

\* lines 95-104: one descriptor
InsertStep ==
    /\ lPc = "insert"
    /\ LET resource == resources[resIdx] IN
       /\ allResources' = InsertResource(allResources, resource)
       /\ inserted' = Append(inserted, resource)
    /\ resIdx' = resIdx + 1
    /\ lPc' = IF resIdx < Len(resources) THEN "insert"
              ELSE ListPcAfterRef(refIdx, Len(rootSchemaRefs))
    /\ refIdx' = IF resIdx < Len(resources) THEN refIdx ELSE refIdx + 1
    /\ UNCHANGED <<rootSchemaRefs, resources, lCalls, printed>>
    /\ UNCHANGED <<batchVars, singleVars, refVars, candVars, loaderVars, chunkVars>>

\* line 107
PrintStep ==
    /\ lPc = "print"
    /\ printed' = Append(printed, allResources)
    /\ lPc' = "done"
    /\ UNCHANGED <<rootSchemaRefs, refIdx, resources, resIdx, allResources, inserted, lCalls>>
    /\ UNCHANGED <<batchVars, singleVars, refVars, candVars, loaderVars, chunkVars>>

ListNext == ListStart \/ GetResourceInfo \/ InsertStep \/ PrintStep

SpecList == ListInit /\ [][ListNext]_vars

\* ------------------------------------------------------ claims, listing run
\* the versions inserted for the case-insensitive class of `type`, in order
VersionsInserted(type) ==
    LET same == SelectSeq(inserted, LAMBDA r : toLowerCase(r.type) = toLowerCase(type))
    IN [k \in 1..Len(same) |-> same[k].apiVersion]
\* the type of the first descriptor inserted for the class of `type`
FirstCasing(type) ==
    LET hits == { k \in 1..Len(inserted) : toLowerCase(inserted[k].type) = toLowerCase(type) }
    IN inserted[CHOOSE k \in hits : \A j \in hits : k <= j].type

\* C7: case-insensitive catalog merge. No two keys are equal without regard to
\* case; every inserted descriptor has the key of its class; each key has the
\* casing of the first descriptor inserted for its class, and holds the versions
\* of all the descriptors of the class, whatever their casing.
C7_CaseInsensitiveMerge ==
    /\ \A i, j \in 1..Len(allResources) :
          i # j => toLowerCase(allResources[i].key) # toLowerCase(allResources[j].key)
    /\ \A k \in 1..Len(inserted) :
          \E i \in 1..Len(allResources) :
              toLowerCase(allResources[i].key) = toLowerCase(inserted[k].type)
    /\ \A i \in 1..Len(allResources) :
          /\ VersionsInserted(allResources[i].key) # <<>>
          /\ allResources[i].key = FirstCasing(allResources[i].key)
          /\ allResources[i].versions = VersionsInserted(allResources[i].key)

\* C7 witness: Foo with v1, then foo with v2, are one key Foo holding v1 and v2
C7_Witness ==
    /\ Len(inserted) = 2
    /\ inserted[1] = [apiVersion |-> "v1", type |-> TypeFoo]
    /\ inserted[2] = [apiVersion |-> "v2", type |-> Typefoo]
    /\ allResources = << [key |-> TypeFoo, versions |-> <<"v1", "v2">>] >>

\* C8 as claimed: under every key each version occurs at most once
C8_NoDuplicateVersions ==
    \A i \in 1..Len(allResources) :
        \A a, b \in 1..Len(allResources[i].versions) :
            a # b => allResources[i].versions[a] # allResources[i].versions[b]

\* C11: listing emits no partial catalog. console.log is called at most once, at
\* the end of a run in which getResourceInfo returned for every candidate
\* reference, in order, and every descriptor returned was inserted; it is given
\* the whole catalog. When findAllResourceReferences or getResourceInfo throws,
\* the run is left at once and nothing is printed.
C11_NoPartialCatalog ==
    /\ Len(printed) <= 1
    /\ (lPc = "done") = (printed # <<>>)
    /\ lPc = "aborted" => printed = <<>>
    /\ \A k \in 1..Len(lCalls) :
          /\ lCalls[k].arg = rootSchemaRefs[k]
          /\ ~lCalls[k].ok => k = Len(lCalls) /\ lPc = "aborted" /\ printed = <<>>
    /\ printed # <<>> =>
          /\ Len(lCalls) = Len(rootSchemaRefs)
          /\ inserted = SeqConcat([k \in 1..Len(lCalls) |-> lCalls[k].ret])
          /\ printed[1] = allResources

\* C11 witness: the second reference failed after the descriptors of the first
\* were inserted, and nothing was printed
C11_Witness ==
    /\ lPc = "aborted"
    /\ Len(lCalls) = 2 /\ lCalls[1].ok /\ ~lCalls[2].ok
    /\ allResources # <<>>
    /\ printed = <<>>

\* =================================================================
\* listresources.ts: findAllReferences
\* =================================================================
\* JSON values: t is the kind; v the text of a string; keys the field names of an
\* object, in field order; items the field values of an object or the elements
\* of an array
JsonScalar(t, v) == [t |-> t, v |-> v, keys |-> <<>>, items |-> <<>>]
JsonArray(items) == [t |-> "array", v |-> "", keys |-> <<>>, items |-> items]
JsonObject(keys, items) == [t |-> "object", v |-> "", keys |-> keys, items |-> items]

JsonScalars ==
    { JsonScalar("null", ""), JsonScalar("number", ""), JsonScalar("boolean", ""),
      JsonScalar("string", "x"), JsonScalar("string", "y") }

\* the field names of an object with n fields
KeyLists(n) ==
    IF n = 0 THEN { <<>> }
    ELSE IF n = 1 THEN { <<"$ref">>, <<"a">> }
    ELSE IF n = 2 THEN { <<"$ref", "a">>, <<"a", "$ref">> }
    ELSE {}

\* the JSON values of n nodes, and the lists of JSON values of n nodes in all
RECURSIVE JsonOfSize(_), JsonListsOfSize(_)
JsonOfSize(n) ==
    (IF n = 1 THEN JsonScalars ELSE {})
    \cup { JsonArray(l) : l \in JsonListsOfSize(n - 1) }
    \cup UNION { { JsonObject(ks, l) : ks \in KeyLists(Len(l)) } : l \in JsonListsOfSize(n - 1) }
JsonListsOfSize(n) ==
    IF n = 0 THEN { <<>> }
    ELSE UNION { { <<x>> \o rest : x \in JsonOfSize(k), rest \in JsonListsOfSize(n - k) } :
                   k \in 1..n }

JsonValues == UNION { JsonOfSize(n) : n \in 1..MaxNodes }

\* typeof x === 'object' (true of null) and Array.isArray(x)
IsArray(x) == x.t = "array"
TypeofObject(x) == x.t \in {"object", "array", "null"}

\* Object.keys(input) with input[key] for each key, in order; Object.keys throws on null
KeyedValues(input) ==
    IF input.t = "object" THEN [k \in 1..Len(input.keys) |-> <<input.keys[k], input.items[k]>>]
    ELSE IF input.t = "array" THEN [k \in 1..Len(input.items) |-> <<ToString(k - 1), input.items[k]>>]
    ELSE IF input.t = "string" THEN << <<"0", JsonScalar("string", input.v)>> >>
    ELSE <<>>

TypeError == [ok |-> FALSE, refs |-> <<>>]
Refs(r) == [ok |-> TRUE, refs |-> r]
\* refs = refs.concat(foundRefs), a throw of the callee leaving the caller
Concat(acc, found) == IF acc.ok /\ found.ok THEN Refs(acc.refs \o found.refs) ELSE TypeError

\* lines 28-46
RECURSIVE findAllReferences(_), ReferencesOfAll(_), ReferencesOfKeys(_)
findAllReferences(input) ==
    IF input.t = "null" THEN TypeError
    ELSE ReferencesOfKeys(KeyedValues(input))
\* lines 33-36: the elements of input[key]
ReferencesOfAll(values) ==
    IF values = <<>> THEN Refs(<<>>)
    ELSE LET first == findAllReferences(Head(values))
         IN IF first.ok THEN Concat(first, ReferencesOfAll(Tail(values))) ELSE TypeError
\* lines 31-43: the keys of input
ReferencesOfKeys(kvs) ==
    IF kvs = <<>> THEN Refs(<<>>)
    ELSE LET key == Head(kvs)[1]
             value == Head(kvs)[2]
             here == IF IsArray(value) THEN ReferencesOfAll(value.items)
                     ELSE IF TypeofObject(value) THEN findAllReferences(value)
                     ELSE IF key = "$ref" /\ value.t = "string" THEN Refs(<<value.v>>)
                     ELSE Refs(<<>>)
         IN IF here.ok THEN Concat(here, ReferencesOfKeys(Tail(kvs))) ELSE TypeError

RefsInit ==
    /\ refPc = "call"
    /\ refInput \in JsonValues
    /\ refResult = <<>>
    /\ BatchIdle /\ SingleIdle /\ ListIdle
    /\ CandIdle /\ LoaderIdle /\ ChunkIdle

\* one call of findAllReferences
CallFindAllReferences ==
    /\ refPc = "call"
    /\ refResult' = findAllReferences(refInput)
    /\ refPc' = "returned"
    /\ UNCHANGED refInput
    /\ UNCHANGED <<batchVars, singleVars, listVars, candVars, loaderVars, chunkVars>>

RefsNext == CallFindAllReferences

SpecRefs == RefsInit /\ [][RefsNext]_vars

\* ------------------------------------------------ claims, findAllReferences
\* the strings under the key $ref anywhere in a JSON value, in traversal order
RECURSIVE StringsUnderRef(_), StringsUnderRefOfFields(_, _), StringsUnderRefOfItems(_)
StringsUnderRef(value) ==
    IF value.t = "object" THEN StringsUnderRefOfFields(value.keys, value.items)
    ELSE IF value.t = "array" THEN StringsUnderRefOfItems(value.items)
    ELSE <<>>
StringsUnderRefOfFields(keys, items) ==
    IF keys = <<>> THEN <<>>
    ELSE (IF Head(keys) = "$ref" /\ Head(items).t = "string" THEN <<Head(items).v>>
          ELSE StringsUnderRef(Head(items)))
         \o StringsUnderRefOfFields(Tail(keys), Tail(items))
StringsUnderRefOfItems(items) ==
    IF items = <<>> THEN <<>>
    ELSE StringsUnderRef(Head(items)) \o StringsUnderRefOfItems(Tail(items))

\* C9 as claimed: for every JSON value findAllReferences returns, without failing,
\* the strings found under $ref anywhere in the value, in traversal order
C9_ResolverComplete ==
    refPc = "returned" =>
        /\ refResult.ok
        /\ refResult.refs = StringsUnderRef(refInput)

\* =================================================================
\* listresources.ts: findAllResourceReferences
\* =================================================================
\* constants.schemasBaseUri, and the same in another casing
schemasBaseUri == <<"https://schema.management.azure.com/schemas">>
SchemasBaseUriUpper == <<"HTTPS://SCHEMA.MANAGEMENT.AZURE.COM/SCHEMAS">>

\* lines 8-13
rootSchemaPaths ==
    << schemasBaseUri \o <<"/", "2019-04-01/deploymentTemplate.json">>,
       schemasBaseUri \o <<"/", "common/definitions.json">>,
       schemasBaseUri \o <<"/", "common/autogeneratedResources.json">>,
       schemasBaseUri \o <<"/", "common/manuallyAddedResources.json">> >>

\* ref.split('#')[0]
DocumentUri(ref) ==
    LET hashes == { i \in 1..Len(ref) : ref[i] = "#" }
    IN IF hashes = {} THEN ref
       ELSE SubSeq(ref, 1, (CHOOSE i \in hashes : \A k \in hashes : i <= k) - 1)

\* lines 18 and 76: s.toLowerCase().startsWith(constants.schemasBaseUri.toLowerCase() + '/')
IsUnderBaseUri(s) == startsWith(toLowerCase(s), toLowerCase(schemasBaseUri) \o <<"/">>)

Fragment(name) == <<"#", "/", "definitions", "/", name>>

\* the strings findAllReferences may find under $ref in a root document
FoundRefs ==
    { SchemasBaseUriUpper \o <<"/", "COMMON/DEFINITIONS.JSON">> \o Fragment("x"),  \* a root document
      rootSchemaPaths[1],                                     \* a root document, no fragment
      RefOf(1),                                                              \* a resource
      SchemasBaseUriUpper \o Tail(RefOf(1)),                    \* the same, base in capitals
      <<"https://example.com/schemas", "/", "resources.json">> \o Fragment("x") } \* elsewhere

RECURSIVE FoundLists(_)
FoundLists(n) ==
    IF n = 0 THEN { <<>> } ELSE { Append(l, r) : l \in FoundLists(n - 1), r \in FoundRefs }

\* what the root documents hold: `total` references in all, spread over `roots` documents
RECURSIVE RootSchemas(_, _)
RootSchemas(roots, total) ==
    IF roots = 0 THEN (IF total = 0 THEN { <<>> } ELSE {})
    ELSE UNION { { <<l>> \o rest : l \in FoundLists(k), rest \in RootSchemas(roots - 1, total - k) } :
                   k \in 0..total }

\* line 76
FilterUnderBaseUri(refs) == SelectSeq(refs, LAMBDA schema : IsUnderBaseUri(schema))

\* a filter that compares the document URI with the root as they are
ExcludeRoot_Exact(refs, rootSchemaPath) ==
    SelectSeq(refs, LAMBDA ref : DocumentUri(ref) # rootSchemaPath)
\* line 82
ExcludeRoot(refs, rootSchemaPath) ==
    SelectSeq(refs, LAMBDA ref : lowerCaseCompare(DocumentUri(ref), rootSchemaPath) # 0)

\* lines 81-83
RECURSIVE ExcludeRoots(_, _)
ExcludeRoots(refs, roots) ==
    IF roots = <<>> THEN refs ELSE ExcludeRoots(ExcludeRoot(refs, Head(roots)), Tail(roots))

\* line 85: [...new Set(allRefs)], the first occurrence of each string, in order
RECURSIVE SetOf(_)
SetOf(refs) ==
    IF refs = <<>> THEN <<>>
    ELSE LET last == refs[Len(refs)]
             before == SetOf(SubSeq(refs, 1, Len(refs) - 1))
         IN IF \E k \in 1..Len(before) : before[k] = last THEN before ELSE Append(before, last)

CandInit ==
    /\ cPc = "collect"
    /\ rootSchemas \in UNION { RootSchemas(Len(rootSchemaPaths), t) : t \in 0..MaxFound }
    /\ rootIdx = 1
    /\ allRefs = <<>>
    /\ candidates = <<>>
    /\ BatchIdle /\ SingleIdle /\ ListIdle /\ RefsIdle /\ LoaderIdle /\ ChunkIdle

\* lines 73-79: one root document
ReadRootSchema ==
    /\ cPc = "collect"
    /\ \/ \* line 74: readSchema throws (the document cannot be read or parsed)
          /\ cPc' = "aborted"
          /\ UNCHANGED <<rootIdx, allRefs>>
       \/ /\ allRefs' = allRefs \o FilterUnderBaseUri(rootSchemas[rootIdx])
          /\ rootIdx' = rootIdx + 1
          /\ cPc' = IF rootIdx < Len(rootSchemaPaths) THEN "collect" ELSE "exclude"
    /\ UNCHANGED <<rootSchemas, candidates>>
    /\ UNCHANGED <<batchVars, singleVars, listVars, refVars, loaderVars, chunkVars>>

\* lines 81-85
ExcludeAndReturn ==
    /\ cPc = "exclude"
    /\ candidates' = SetOf(ExcludeRoots(allRefs, rootSchemaPaths))
    /\ cPc' = "returned"
    /\ UNCHANGED <<rootSchemas, rootIdx, allRefs>>
    /\ UNCHANGED <<batchVars, singleVars, listVars, refVars, loaderVars, chunkVars>>

CandNext == ReadRootSchema \/ ExcludeAndReturn

SpecCandidates == CandInit /\ [][CandNext]_vars

\* ------------------------------------- claims, findAllResourceReferences
\* every string found in a root document
AllFound ==
    UNION { { rootSchemas[i][k] : k \in 1..Len(rootSchemas[i]) } : i \in 1..Len(rootSchemas) }
IsSelfReference(ref) ==
    \E i \in 1..Len(rootSchemaPaths) :
        toLowerCase(DocumentUri(ref)) = toLowerCase(rootSchemaPaths[i])
IsTrusted(ref) == IsPrefix(toLowerCase(schemasBaseUri) \o <<"/">>, toLowerCase(ref))

\* C12: self-reference exclusion and candidate set. The list returned holds no
\* reference to a root document (document URIs compared without regard to case),
\* only references under the trusted base URI, and every other reference found,
\* each exactly once, two strings being the same only when they are identical.
C12_CandidateSet ==
    cPc = "returned" =>
        /\ \A k \in 1..Len(candidates) : ~IsSelfReference(candidates[k])
        /\ \A k \in 1..Len(candidates) : IsTrusted(candidates[k])
        /\ \A i, j \in 1..Len(candidates) : i # j => candidates[i] # candidates[j]
        /\ { candidates[k] : k \in 1..Len(candidates) }
              = { r \in AllFound : IsTrusted(r) /\ ~IsSelfReference(r) }

\* C12 witness: a reference to a root document written in capitals, and a resource
\* reference found three times, once with the base in capitals: the root is
\* dropped, the resource is kept once per spelling
C12_Witness ==
    /\ cPc = "returned"
    /\ \E r \in AllFound : IsSelfReference(r) /\ DocumentUri(r) \notin
            { rootSchemaPaths[i] : i \in 1..Len(rootSchemaPaths) }
    /\ candidates = << RefOf(1), SchemasBaseUriUpper \o Tail(RefOf(1)) >>

\* =================================================================
\* listresources.ts: getResourceInfo and readSchema
\* =================================================================
\* str.split(sep): the pieces between the separators, '' for an empty piece
RECURSIVE split(_, _)
split(str, sep) ==
    LET at == { i \in 1..Len(str) : str[i] = sep }
    IN IF at = {} THEN <<str>>
       ELSE LET i == CHOOSE i \in at : \A k \in at : i <= k
            IN <<SubSeq(str, 1, i - 1)>> \o split(SubSeq(str, i + 1, Len(str)), sep)

\* str.substring(1), for a string that is empty or starts with a one-character token
substring1(str) == IF str = <<>> THEN <<>> ELSE Tail(str)

\* JSON values of a document: property names and strings are token sequences
JsonNull == JsonScalar("null", <<>>)
JsonUndefined == JsonScalar("undefined", <<>>)
JsonString(str) == JsonScalar("string", str)
JsonStrings(list) == JsonArray([k \in 1..Len(list) |-> JsonString(list[k])])
EmptyObject == JsonObject(<<>>, <<>>)
Field(name, value) == JsonObject(<< <<name>> >>, <<value>>)
Fields(name1, value1, name2, value2) == JsonObject(<< <<name1>>, <<name2>> >>, <<value1, value2>>)

\* the enumerations a target may hold (versions as token sequences)
LoaderTypeEnums == TypeEnums
LoaderVersionEnums == { [k \in 1..Len(vs) |-> <<vs[k]>>] : vs \in VersionEnums }

\* the nodes stored at resourceDefinitions.r
TargetNodes ==
    { Field("properties", Fields("type", Field("enum", JsonStrings(T)),
                                 "apiVersion", Field("enum", JsonStrings(V)))) :
        T \in LoaderTypeEnums, V \in LoaderVersionEnums }
    \cup { EmptyObject,
           Field("properties", EmptyObject),
           Field("properties", Field("type", Field("enum", JsonStrings(<<TypeFoo>>)))),
           Field("properties", Field("apiVersion", Field("enum", JsonStrings(<< <<"v1">> >>)))),
           Field("properties", Fields("type", EmptyObject,
                                      "apiVersion", Field("enum", JsonStrings(<< <<"v1">> >>)))),
           Field("properties", Fields("type", Field("enum", JsonStrings(<<TypeFoo>>)),
                                      "apiVersion", EmptyObject)),
           JsonNull,
           JsonString(<<"x">>) }

\* what the file at the reference's path holds: nothing readable, or a document
Unreadable == JsonScalar("unreadable", <<>>)
SchemaFiles ==
    { Unreadable } \cup { Field("resourceDefinitions", Field("r", node)) : node \in TargetNodes }

\* the references given to getResourceInfo
SchemaRefs ==
    { RefOf(1),                                               \* .../resources.json#/resourceDefinitions/r
      RefOf(2),                                               \* ...#/resourceDefinitions/rr
      SubSeq(RefOf(1), 1, 5) \o <<"missing", "/", "r">>,       \* ...#/missing/r
      SubSeq(RefOf(1), 1, 3),                                 \* no fragment
      SubSeq(RefOf(1), 1, 4),                                 \* ...#
      SchemasBaseUriUpper \o Tail(RefOf(1)),                   \* base in capitals
      <<"https://example.com/schemas">> \o Tail(RefOf(1)),     \* another base
      <<"https://example.com/schemas", "/", "resources.json">> }

\* x[name] for a value that can be indexed (named properties exist on objects only)
GetProperty(x, name) ==
    IF x.t = "object" /\ \E k \in 1..Len(x.keys) : x.keys[k] = name
    THEN x.items[CHOOSE k \in 1..Len(x.keys) : x.keys[k] = name]
    ELSE JsonUndefined
\* indexing undefined or null throws a TypeError
CanIndex(x) == x.t \notin {"undefined", "null"}
\* !x is false
Truthy(x) == x.t \notin {"undefined", "null"} /\ ~(x.t = "string" /\ x.v = <<>>)

\* lines 54-56: ok is FALSE when an element is read from undefined or null
RECURSIVE Descend(_, _)
Descend(schema, pathElements) ==
    IF pathElements = <<>> THEN [ok |-> TRUE, node |-> schema]
    ELSE IF ~CanIndex(schema) THEN [ok |-> FALSE, node |-> schema]
    ELSE Descend(GetProperty(schema, Head(pathElements)), Tail(pathElements))

\* line 58, for a schema that can be indexed
HasExpectedProperties(schema) ==
    LET properties == GetProperty(schema, <<"properties">>)
        type == GetProperty(properties, <<"type">>)
        apiVersion == GetProperty(properties, <<"apiVersion">>)
    IN /\ Truthy(properties)
       /\ Truthy(type)
       /\ Truthy(GetProperty(type, <<"enum">>))
       /\ Truthy(apiVersion)
       /\ Truthy(GetProperty(apiVersion, <<"enum">>))

\* lines 62-63
EnumOf(schema, name) ==
    LET enum == GetProperty(GetProperty(GetProperty(schema, <<"properties">>), name), <<"enum">>)
    IN [k \in 1..Len(enum.items) |-> enum.items[k].v]

\* the outcomes of a call: the descriptors, or the error thrown; reads are the
\* files readFile was asked for
Threw(error, reads) == [kind |-> error, descriptors |-> <<>>, reads |-> reads]
ReturnedDescriptors(descriptors, reads) ==
    [kind |-> "returned", descriptors |-> descriptors, reads |-> reads]

\* line 22: schemaUri.substring(constants.schemasBaseUri.length + 1)
FilePath(schemaUri) == SubSeq(schemaUri, Len(schemasBaseUri) + 2, Len(schemaUri))

\* lines 48-69, with readSchema (lines 17-26) in line
getResourceInfo(ref, file) ==
    LET parts == split(ref, "#")
        schemaUri == parts[1]
    IN IF Len(parts) < 2
       THEN Threw("TypeError", <<>>)                       \* line 50: undefined.substring
       ELSE IF ~IsUnderBaseUri(schemaUri)
       THEN Threw("Invalid schema Uri", <<>>)              \* line 19
       ELSE IF file = Unreadable
       THEN Threw("ReadError", <<FilePath(schemaUri)>>)    \* lines 23-25
       ELSE LET reads == <<FilePath(schemaUri)>>
                reached == Descend(file, split(substring1(parts[2]), "/"))
            IN IF ~reached.ok \/ ~CanIndex(reached.node)
               THEN Threw("TypeError", reads)              \* lines 55, 58
               ELSE IF ~HasExpectedProperties(reached.node)
               THEN Threw("Unable to find expected properties", reads)   \* line 59
               ELSE ReturnedDescriptors(
                        getResourceInfoResult(EnumOf(reached.node, <<"type">>),
                                              EnumOf(reached.node, <<"apiVersion">>)), reads)

LoaderInit ==
    /\ ldPc = "call"
    /\ schemaRef \in SchemaRefs
    /\ schemaFile \in SchemaFiles
    /\ ldReads = <<>>
    /\ ldResult = <<>>
    /\ BatchIdle /\ SingleIdle /\ ListIdle /\ RefsIdle /\ CandIdle /\ ChunkIdle

\* one call of getResourceInfo
CallGetResourceInfo ==
    /\ ldPc = "call"
    /\ LET outcome == getResourceInfo(schemaRef, schemaFile) IN
       /\ ldResult' = [kind |-> outcome.kind, descriptors |-> outcome.descriptors]
       /\ ldReads' = outcome.reads
    /\ ldPc' = "returned"
    /\ UNCHANGED <<schemaRef, schemaFile>>
    /\ UNCHANGED <<batchVars, singleVars, listVars, refVars, candVars, chunkVars>>

LoaderNext == CallGetResourceInfo

SpecLoader == LoaderInit /\ [][LoaderNext]_vars

\* ------------------------------------------------- claims, getResourceInfo
\* the node the fragment of a reference leads to in a document, undefined when a
\* segment does not exist or the reference has no fragment
RECURSIVE NodeAt(_, _)
NodeAt(node, names) ==
    IF names = <<>> THEN node
    ELSE IF node.t # "object" THEN JsonUndefined
    ELSE NodeAt(GetProperty(node, Head(names)), Tail(names))
TargetNode(ref, file) ==
    IF Len(split(ref, "#")) < 2 THEN JsonUndefined
    ELSE NodeAt(file, split(substring1(split(ref, "#")[2]), "/"))
\* the strings of the enumeration under properties.<name>.enum, undefined when absent
TargetEnum(node, name) ==
    LET enum == NodeAt(node, << <<"properties">>, name, <<"enum">> >>)
    IN IF enum.t = "array" THEN [k \in 1..Len(enum.items) |-> enum.items[k].v] ELSE Undefined
HasBothEnums(node) ==
    TargetEnum(node, <<"type">>) # Undefined /\ TargetEnum(node, <<"apiVersion">>) # Undefined

\* C13: cross product. When getResourceInfo returns for a target with type
\* enumeration T and apiVersion enumeration V, it returns |T| x |V| descriptors:
\* for every position i of T and j of V the descriptor (T[i], V[j]), one after
\* the other with the types outermost, and so none when T or V is empty.
C13_CrossProduct ==
    (ldPc = "returned" /\ ldResult.kind = "returned") =>
        LET T == TargetEnum(TargetNode(schemaRef, schemaFile), <<"type">>)
            V == TargetEnum(TargetNode(schemaRef, schemaFile), <<"apiVersion">>)
            d == ldResult.descriptors
        IN /\ Len(d) = Len(T) * Len(V)
           /\ \A i \in 1..Len(T), j \in 1..Len(V) :
                 d[(i - 1) * Len(V) + j] = [apiVersion |-> V[j], type |-> T[i]]
           /\ (T = <<>> \/ V = <<>>) => d = <<>>

\* C13 witness: two types and two versions gave four descriptors
C13_Witness ==
    /\ ldPc = "returned" /\ ldResult.kind = "returned"
    /\ Len(ldResult.descriptors) = 4
    /\ ldResult.descriptors[2] = [apiVersion |-> <<"v2">>, type |-> TypeFOO]
    /\ ldResult.descriptors[3] = [apiVersion |-> <<"v1">>, type |-> TypeFoo]

\* C19 as claimed: a call returns descriptors only from a node holding both
\* enumerations; it fails with the invalid-reference error, reading no file, when
\* the document URI is not under the trusted base; and it fails with the
\* malformed-schema error when the document is read and the node the fragment
\* leads to lacks an enumeration, a missing path segment and a reference without
\* fragment included.
C19_LoaderOutcome ==
    ldPc = "returned" =>
        LET node == TargetNode(schemaRef, schemaFile) IN
        /\ ldResult.kind = "returned" => HasBothEnums(node)
        /\ ~IsTrusted(DocumentUri(schemaRef)) =>
              ldResult.kind = "Invalid schema Uri" /\ ldReads = <<>>
        /\ (IsTrusted(DocumentUri(schemaRef)) /\ schemaFile # Unreadable /\ ~HasBothEnums(node)) =>
              ldResult.kind = "Unable to find expected properties"

\* =================================================================
\* generateall.ts and part_000: either generation command
\* =================================================================
GenerationInit == Init \/ SingleInit
GenerationNext == Next \/ SingleNext
SpecGeneration == GenerationInit /\ [][GenerationNext]_vars

\* the entries findOrGenerateAutogenEntries returned for the base paths entered
Enumerated == SeqConcat([k \in 1..Len(Entered) |-> Entered[k].autoGenList])
\* a configuration generated for the entry
ConfigOf(config, cfg) == config.basePath = cfg.basePath /\ config.namespace = cfg.namespace

\* C14: disabled entries are never generated. In a full-batch run no disabled
\* entry is given to generateSchemas or to clearAutoGeneratedSchemaRefs, none is
\* attempted (so none gets a package record: the records are those of the
\* attempts), and the list saved holds no configuration of a disabled entry; in a
\* single-surface run no disabled entry is given to generateSchemas and the list
\* saved holds no configuration of a disabled entry.
C14_DisabledNeverGenerated ==
    /\ \A k \in 1..Len(calls) :
          /\ calls[k].fn = "generateSchemas" => calls[k].arg.disabledForAutogen # TRUE
          /\ calls[k].fn = "clearAutoGeneratedSchemaRefs" =>
                \A i \in 1..Len(calls[k].arg) : calls[k].arg[i].disabledForAutogen # TRUE
    /\ \A k \in 1..Len(Attempts) : Attempts[k].cfg.disabledForAutogen # TRUE
    /\ Len(packages) = Len(Attempts)
    /\ \A k \in 1..Len(Entered) :
          Len(SelectSeq(Attempts, LAMBDA a : a.basePath = Entered[k].basePath))
              <= Len(SelectSeq(Entered[k].autoGenList, LAMBDA x : x.disabledForAutogen # TRUE))
    /\ \A k \in 1..Len(Saved), i \in 1..Len(Enumerated) :
          Enumerated[i].disabledForAutogen = TRUE =>
              \A j \in 1..Len(Saved[k].arg) : ~ConfigOf(Saved[k].arg[j], Enumerated[i])
    /\ \A k \in 1..Len(schemaConfigs), i \in 1..Len(Enumerated) :
          Enumerated[i].disabledForAutogen = TRUE => ~ConfigOf(schemaConfigs[k], Enumerated[i])
    /\ \A k \in 1..Len(sCalls) :
          sCalls[k].fn = "generateSchemas" => sCalls[k].arg.disabledForAutogen # TRUE
    /\ \A k \in 1..Len(SingleSaved), i \in 1..Len(autoGenEntries) :
          autoGenEntries[i].disabledForAutogen = TRUE =>
              \A j \in 1..Len(SingleSaved[k].arg) : ~ConfigOf(SingleSaved[k].arg[j], autoGenEntries[i])

\* C14 witness: a full-batch run saved the configurations of a base path whose
\* first entry was disabled and whose second entry was generated
C14_Witness ==
    /\ Saved # <<>> /\ Saved[1].ok
    /\ Len(Entered) = 1
    /\ Len(Entered[1].autoGenList) = 2
    /\ Entered[1].autoGenList[1].disabledForAutogen = TRUE
    /\ Len(Attempts) = 1 /\ ~Raised(Attempts[1])
    /\ Len(packages) = 1
    /\ Saved[1].arg # <<>>

\* ------------------------------------ claims, full-batch run (continued)
\* the positions of the allow-listed documents an entry matches
AllowListed(c) ==
    { i \in 1..Len(args.readmeFiles) :
        IsPrefix(<<"specification/">> \o c.basePath, args.readmeFiles[i]) }
FirstAllowListed(c) ==
    args.readmeFiles[CHOOSE i \in AllowListed(c) : \A k \in AllowListed(c) : i <= k]
Enabled(list) == SelectSeq(list, LAMBDA x : x.disabledForAutogen # TRUE)
\* C15: allow-list filtering. With --readme-files, the entries that survive for a
\* base path are its enabled entries that some listed document matches (the
\* document starts with specification/ and the entry's base path), in entry
\* order, each with readmeFile set to the first matching document of the list;
\* every attempt is made for a surviving entry and resolves that document.
\* Without --readme-files the enabled entries survive as they are.
C15_AllowList ==
    /\ \A k \in 1..Len(Entered) :
          LET enabled == Enabled(Entered[k].autoGenList)
              kept == SelectSeq(enabled, LAMBDA c : AllowListed(c) # {})
          IN IF args.readmeFiles = UndefinedList
             THEN Entered[k].filtered = enabled
             ELSE Entered[k].filtered =
                    [i \in 1..Len(kept) |-> [kept[i] EXCEPT !.readmeFile = FirstAllowListed(kept[i])]]
    /\ Len(packages) = Len(Attempts)
    /\ \A k \in 1..Len(Attempts) :
          LET cfg == Attempts[k].cfg IN
          /\ \E e \in 1..Len(Entered) :
                /\ Entered[e].basePath = Attempts[k].basePath
                /\ \E i \in 1..Len(Entered[e].filtered) : Entered[e].filtered[i] = cfg
          /\ args.readmeFiles # UndefinedList =>
                /\ AllowListed(cfg) # {}
                /\ cfg.readmeFile = FirstAllowListed(cfg)
                /\ \E i \in 1..Len(calls) :
                      /\ calls[i].fn = "validateAndReturnReadmePath"
                      /\ calls[i].arg = FirstAllowListed(cfg)
    /\ \A k \in 1..Len(calls) :
          (calls[k].fn = "generateSchemas" /\ args.readmeFiles # UndefinedList) =>
              /\ AllowListed(calls[k].arg) # {}
              /\ calls[k].arg.readmeFile = FirstAllowListed(calls[k].arg)
              /\ calls[k - 1] = Call("getPackageString", ReadmePath(FirstAllowListed(calls[k].arg)), TRUE)

\* C15 witness: two documents are listed and both match the entry; the entry,
\* which had a readmeFile of its own, was generated with the first of the two
C15_Witness ==
    /\ args.readmeFiles = << ReadmeFileOf(BasePath(2)), ReadmeFileOf(BasePath(1)) >>
    /\ Len(Entered) >= 1
    /\ Entered[1].basePath = BasePath(1)
    /\ Len(Entered[1].autoGenList) = 2
    /\ Entered[1].autoGenList[1].disabledForAutogen = TRUE
    /\ Entered[1].autoGenList[2].readmeFile = ReadmeFileOf(BasePath(1))
    /\ Len(Attempts) >= 1
    /\ Attempts[1].cfg.readmeFile = ReadmeFileOf(BasePath(2))
    /\ ~Raised(Attempts[1])
    /\ Len(packages) >= 1

\* =================================================================
\* generateall.ts: the chunk selection (lines 56-58), on its own and in the run
\* =================================================================
\* --batch-count and --batch-index: absent, or a count of at least one and an
\* index of at least zero
ChunkArgs ==
    { [DefaultArgs EXCEPT !.batchCount = count, !.batchIndex = index] :
        count \in {UndefinedNum} \cup 1..MaxBatchCount,
        index \in {UndefinedNum} \cup 0..MaxBatchCount }

ChunkInit ==
    /\ chPc = "select"
    /\ chBasePaths \in { BasePathList(n) : n \in 0..MaxChunkInput }
    /\ chArgs \in ChunkArgs
    /\ chSelected = <<>>
    /\ BatchIdle /\ SingleIdle /\ ListIdle /\ RefsIdle /\ CandIdle /\ LoaderIdle

\* lines 56-58
SelectChunk ==
    /\ chPc = "select"
    /\ chSelected' = SelectBasePaths(chBasePaths, chArgs)
    /\ chPc' = "selected"
    /\ UNCHANGED <<chBasePaths, chArgs>>
    /\ UNCHANGED <<batchVars, singleVars, listVars, refVars, candVars, loaderVars>>

ChunkNext == SelectChunk

PartitionInit == Init \/ ChunkInit
PartitionNext == Next \/ ChunkNext
SpecPartition == PartitionInit /\ [][PartitionNext]_vars

\* ------------------------------------------------------ claims, partitioning
BothGiven(a) == a.batchCount # UndefinedNum /\ a.batchIndex # UndefinedNum
\* the chunks of a list reconstruct it: concatenated in index order they are the
\* list (whose elements are distinct, so none is lost, moved or in two chunks)
Reconstructs(chunks, list) ==
    /\ SeqConcat(chunks) = list
    /\ \A i, j \in 1..Len(list) : i # j => list[i] # list[j]
\* what a run is left with after lines 56-58
SelectionOf(list, a, selected) ==
    /\ a.batchCount # UndefinedNum => Reconstructs(chunker(list, a.batchCount), list)
    /\ BothGiven(a) =>
          LET chunks == chunker(list, a.batchCount) IN
          IF a.batchIndex < Len(chunks)
          THEN selected = chunks[a.batchIndex + 1]
          ELSE selected = UndefinedList
    /\ ~BothGiven(a) => selected = list

PackageBlocks(out) == SelectSeq(out, LAMBDA l : l.kind \in {"success", "failed"})
SkippedBlocks(out) == SelectSeq(out, LAMBDA l : l.kind = "skipped")

\* C17: the summary log covers every outcome. The blocks the run writes are, in
\* order, one per package record (a success block for a succeeded record, a
\* failure block naming the entry and embedding its error for a failed one) and,
\* apart from these, one failure block per skipped base path embedding its error;
\* there is no other block, and the console received the same blocks as the file.
C17_SummaryLog ==
    /\ \A k \in 1..Len(logFile) : logFile[k].kind \in {"success", "failed", "skipped"}
    /\ Len(PackageBlocks(logFile)) = Len(packages)
    /\ Len(packages) = Len(Attempts)
    /\ \A k \in 1..Len(packages) :
          LET b == PackageBlocks(logFile)[k]
              a == Attempts[k]
          IN /\ packages[k].result = "succeeded" =>
                   b.kind = "success" /\ b.basePath = a.basePath
             /\ packages[k].result = "failed" =>
                   /\ b.kind = "failed"
                   /\ b.basePath = a.cfg.basePath /\ b.namespace = a.cfg.namespace
                   /\ Raised(a) /\ b.error = ErrorOf(a.stage)
    /\ Len(SkippedBlocks(logFile)) = Len(Skipped)
    /\ \A k \in 1..Len(Skipped) :
          /\ SkippedBlocks(logFile)[k].basePath = Skipped[k].basePath
          /\ SkippedBlocks(logFile)[k].error = ErrorOf(Skipped[k].stage)
    /\ SummaryBlocks(stdout) = logFile
    /\ \A k \in 1..Len(logFile) : ~logFile[k].ansi

\* C17 witness: a finished run with a skipped base path, a failed entry and a
\* succeeded entry has the three blocks, the failure ones with their error
C17_Witness ==
    /\ pc = "done"
    /\ Len(packages) = 2 /\ Len(Skipped) = 1
    /\ packages[1].result = "failed" /\ packages[2].result = "succeeded"
    /\ Len(logFile) = 3
    /\ logFile[1] = SkippedBlock(basePaths[1], ErrorOf("namespaces"))
    /\ logFile[2].error = ErrorOf("generate")
    /\ logFile[3].kind = "success"

\* ------------------------------- claims, full-batch run (reference clearing)
Cleared == CallsOf(calls, "clearAutoGeneratedSchemaRefs")
\* the base paths whose pre-generation steps came as far as the clearing
ReachedClear == SelectSeq(Visited, LAMBDA e : e.kind = "enter" \/ e.stage = "clear")

\* C18 as claimed: the references are cleared exactly once for every base path
\* the run has visited
C18_ClearedForEveryBasePath == Len(Cleared) = Len(Visited)

\* C18 amended: clearAutoGeneratedSchemaRefs is called exactly once for every
\* base path whose readme, namespaces and entries were obtained, and not at all
\* for a base path skipped before that; it is called right after the entries are
\* enumerated, with exactly the entries that survived the filters; and every
\* generation attempt of a base path comes after the call for that base path
\* has returned, for an entry that was given to it.
C18_ClearBeforeGenerate ==
    /\ Len(Cleared) = Len(ReachedClear)
    /\ \A k \in 1..Len(Cleared) :
          /\ Cleared[k].ok = (ReachedClear[k].kind = "enter")
          /\ Cleared[k].ok => Cleared[k].arg = ReachedClear[k].filtered
          /\ \A i \in 1..Len(Cleared[k].arg) :
                /\ Cleared[k].arg[i].disabledForAutogen # TRUE
                /\ Cleared[k].arg[i].basePath = ReachedClear[k].basePath
                /\ args.readmeFiles # UndefinedList => AllowListed(Cleared[k].arg[i]) # {}
    /\ \A c \in 1..Len(calls) :
          calls[c].fn = "clearAutoGeneratedSchemaRefs" =>
              /\ c > 1
              /\ calls[c - 1].fn = "findOrGenerateAutogenEntries" /\ calls[c - 1].ok
    /\ \A j \in 1..Len(calls) :
          (calls[j].fn = "findOrGenerateAutogenEntries" /\ calls[j].ok) =>
              /\ j < Len(calls)
              /\ calls[j + 1].fn = "clearAutoGeneratedSchemaRefs"
              /\ \A m \in 1..Len(calls) :
                    (calls[m].fn = "findOrGenerateAutogenEntries" /\ calls[m].arg = calls[j].arg)
                        => m = j
    /\ \A i \in 1..Len(calls) :
          (calls[i].fn \in {"generateSchemas", "getPackageString"}) =>
              \E c \in 1..(i - 1) :
                  /\ calls[c].fn = "clearAutoGeneratedSchemaRefs" /\ calls[c].ok
                  /\ \A m \in (c + 1)..(i - 1) :
                        calls[m].fn \notin {"clearAutoGeneratedSchemaRefs",
                                            "findOrGenerateAutogenEntries"}
                  /\ calls[i].fn = "generateSchemas" =>
                        \E e \in 1..Len(calls[c].arg) : calls[c].arg[e] = calls[i].arg

\* C18 witness: the first base path was skipped for want of a readme and nothing
\* was cleared for it; the entries of the second were cleared, then generated
C18_Witness ==
    /\ Len(Visited) = 2
    /\ Visited[1].kind = "skip" /\ Visited[1].stage = "readme"
    /\ Len(Cleared) = 1 /\ Len(Cleared[1].arg) = 2
    /\ Len(CallsOf(calls, "generateSchemas")) = 2

\* ------------------------------ claims, full-batch run (isolation boundaries)
BlocksOf(out, kind, basePath) ==
    SelectSeq(out, LAMBDA l : l.kind = kind /\ l.basePath = basePath)

\* C20: the outer boundary covers every pre-generation step. A base path whose
\* namespace retrieval, entry enumeration or reference clearing raised is skipped:
\* one skipped block with that error in each sink, no attempt, no generateSchemas
\* call and so no package record for it, the run not left, and the base paths
\* after it visited. An entry that raised inside the loop, at the resolution of
\* its own readme or at generation, has a failed package record, and its base
\* path is entered, not skipped.
C20_OuterBoundary ==
    /\ pc = "aborted" => fatal \notin {"readme", "namespaces", "entries", "clear", "generate"}
    /\ \A k \in 1..Len(Visited) : Visited[k].basePath = basePaths[k]
    /\ LoopOver => Len(Visited) = Len(basePaths)
    /\ Len(packages) = Len(Attempts)
    /\ \A k \in 1..Len(Skipped) :
          LET bp == Skipped[k].basePath IN
          Skipped[k].stage \in {"namespaces", "entries", "clear"} =>
            /\ BlocksOf(logFile, "skipped", bp) = <<SkippedBlock(bp, ErrorOf(Skipped[k].stage))>>
            /\ BlocksOf(stdout, "skipped", bp) = <<SkippedBlock(bp, ErrorOf(Skipped[k].stage))>>
            /\ \A i \in 1..Len(Attempts) : Attempts[i].basePath # bp
            /\ \A i \in 1..Len(Entered) : Entered[i].basePath # bp
            /\ \A i \in 1..Len(calls) :
                  calls[i].fn = "generateSchemas" => calls[i].arg.basePath # bp
    /\ \A k \in 1..Len(Attempts) :
          Raised(Attempts[k]) =>
            /\ Attempts[k].stage \in {"readme", "generate"}
            /\ packages[k].result = "failed"
            /\ packages[k].packageName = Attempts[k].cfg.basePath
            /\ \E i \in 1..Len(Entered) : Entered[i].basePath = Attempts[k].basePath
            /\ \A i \in 1..Len(Skipped) : Skipped[i].basePath # Attempts[k].basePath
            /\ BlocksOf(logFile, "skipped", Attempts[k].basePath) = <<>>

\* C20 witness: a finished run in which the clearing of the first base path
\* raised and an entry of the second, with a readme of its own, could not resolve it
C20_Witness ==
    /\ pc = "done"
    /\ Len(Skipped) = 1 /\ Skipped[1].stage = "clear" /\ Skipped[1].basePath = basePaths[1]
    /\ Len(Attempts) = 1
    /\ Attempts[1].basePath = basePaths[2]
    /\ Attempts[1].stage = "readme"
    /\ Attempts[1].cfg.readmeFile # Undefined
    /\ packages = << [path |-> <<"schemas">>, packageName |-> basePaths[2], result |-> "failed"] >>

====
